---- MODULE Spec2Model ----
(***************************************************************************)
(* sounds.h: a file-scope constant byte vector ding_dong_raw and the       *)
(* accessor get_sound(name), which answers the address of that vector for  *)
(* the name "ding_dong" and nullptr for every other name.                  *)
(*                                                                         *)
(* Strings are sequences of character codes, so that the comparison in     *)
(* get_sound is computed character by character as std::string does it.    *)
(* Pointers are the strings NULL and AddrOf_ding_dong_raw; memory maps an  *)
(* address to the object stored there.                                     *)
(***************************************************************************)
EXTENDS Integers, Sequences, FiniteSets, TLC

\* Number of threads that call get_sound.
NumCallers == 2

Callers == 1..NumCallers

\* ---------------------------------------------------------------- strings

\* "ding_dong", the string literal of line 13.
Literal_ding_dong == <<100, 105, 110, 103, 95, 100, 111, 110, 103>>

\* The names the callers pass: "", "ding", "Ding_Dong", "DING_DONG",
\* "ding_dong", "ding_dong2" and "ding_dong" followed by a NUL character.
Name_empty == <<>>
Name_ding == <<100, 105, 110, 103>>
Name_Ding_Dong == <<68, 105, 110, 103, 95, 68, 111, 110, 103>>
Name_DING_DONG == <<68, 73, 78, 71, 95, 68, 79, 78, 71>>
Name_ding_dong == <<100, 105, 110, 103, 95, 100, 111, 110, 103>>
Name_ding_dong2 == <<100, 105, 110, 103, 95, 100, 111, 110, 103, 50>>
Name_ding_dong_nul == <<100, 105, 110, 103, 95, 100, 111, 110, 103, 0>>

ProbeNames ==
    { Name_empty, Name_ding, Name_Ding_Dong, Name_DING_DONG,
      Name_ding_dong, Name_ding_dong2, Name_ding_dong_nul }

Min(a, b) == IF a <= b THEN a ELSE b

\* char_traits<char>::compare(a, b, n): the sign of the first difference
\* among the first n characters.
RECURSIVE traits_compare(_, _, _)
traits_compare(a, b, n) ==
    IF n = 0 THEN 0
    ELSE IF a[1] < b[1] THEN -1
    ELSE IF a[1] > b[1] THEN 1
    ELSE traits_compare(Tail(a), Tail(b), n - 1)

\* std::string::compare(const char*): the common prefix first, then the
\* difference of the lengths.
string_compare(s, lit) ==
    LET rlen == Min(Len(s), Len(lit))
        r == traits_compare(s, lit, rlen)
    IN  IF r # 0 THEN r ELSE Len(s) - Len(lit)

ToLower(ch) == IF ch >= 65 /\ ch <= 90 THEN ch + 32 ELSE ch

\* A comparison that ignores case (strcasecmp).
StrEq_nocase(s, lit) ==
    string_compare([i \in 1..Len(s) |-> ToLower(s[i])],
                   [i \in 1..Len(lit) |-> ToLower(lit[i])]) = 0

\* operator==(const std::string&, const char*)
StrEq(s, lit) == string_compare(s, lit) = 0

\* ----------------------------------------------------------------- memory

NULL == "nullptr"
AddrOf_ding_dong_raw == "&ding_dong_raw"

\* A three-byte initializer.
ding_dong_raw_init_short == <<0, 0, 0>>

\* The initializer list of ding_dong_raw, as uint8_t values.
ding_dong_raw_init == [i \in 1..4 |-> 0 % 256]

\* Static storage before dynamic initialization: zero-initialized, the
\* vector's constructor has not run.
ZeroInitialized == [constructed |-> FALSE, bytes |-> <<>>]

\* The order of this translation unit's definitions, which is the order of
\* its dynamic initialization: code that names get_sound comes first.
StaticInitOrder_late == <<"user_code", "ding_dong_raw">>

\* The order of this translation unit's definitions, which is the order of
\* its dynamic initialization: ding_dong_raw (line 8) precedes get_sound
\* (line 12) and so all the code that can name get_sound.
StaticInitOrder == <<"ding_dong_raw", "user_code">>

VARIABLES
    tuPos,        \* how many entries of StaticInitOrder have been started
    mem,          \* address -> object
    nConstructed, \* how many times the constructor of ding_dong_raw ran
    pc,           \* caller -> "idle" | "called" | "compared" | "returned"
    arg,          \* caller -> the string bound to the parameter name
    cmp,          \* caller -> the value of name == "ding_dong"
    ret,          \* caller -> the value returned
    seen,         \* name -> the outcomes callers have observed for it
    handedOut     \* the non-null pointers returned so far

vars == <<tuPos, mem, nConstructed, pc, arg, cmp, ret, seen, handedOut>>

Init ==
    /\ tuPos = 0
    /\ mem = [a \in {AddrOf_ding_dong_raw} |-> ZeroInitialized]
    /\ nConstructed = 0
    /\ pc = [c \in Callers |-> "idle"]
    /\ arg = [c \in Callers |-> Name_empty]
    /\ cmp = [c \in Callers |-> FALSE]
    /\ ret = [c \in Callers |-> NULL]
    /\ seen = [n \in ProbeNames |-> {}]
    /\ handedOut = {}

\* Whether the code that calls get_sound has started running.
UserCodeStarted ==
    \E i \in 1..tuPos : StaticInitOrder[i] = "user_code"

\* Program startup: the next definition of the translation unit is
\* initialized. For ding_dong_raw that is the vector's constructor.
DynamicInit ==
    /\ tuPos < Len(StaticInitOrder)
    /\ tuPos' = tuPos + 1
    /\ IF StaticInitOrder[tuPos + 1] = "ding_dong_raw"
       THEN /\ mem' = [mem EXCEPT ![AddrOf_ding_dong_raw] =
                        [constructed |-> TRUE, bytes |-> ding_dong_raw_init]]
            /\ nConstructed' = nConstructed + 1
       ELSE UNCHANGED <<mem, nConstructed>>
    /\ UNCHANGED <<pc, arg, cmp, ret, seen, handedOut>>

\* ------------------------------------------------------------- get_sound

\* The condition of line 13.
get_sound_test(name) == StrEq(name, Literal_ding_dong)

\* A lookup that answers once and is absent afterwards.
get_sound_result_once(matched) ==
    IF matched /\ handedOut = {} THEN AddrOf_ding_dong_raw ELSE NULL

\* A lookup that signals an unknown name instead of answering nullptr.
get_sound_result_throws(matched) ==
    IF matched THEN AddrOf_ding_dong_raw ELSE "throw std::out_of_range"

\* A lookup that answers the address of a copy of the vector.
get_sound_result_copy(matched) ==
    IF matched THEN "&copy" ELSE NULL

\* The two return statements of lines 13 and 14.
get_sound_result(matched) ==
    IF matched THEN AddrOf_ding_dong_raw ELSE NULL

\* get_sound as one function.
get_sound(name) == get_sound_result(get_sound_test(name))

\* A caller enters get_sound: name is bound to the caller's string.
Call(c, name) ==
    /\ UserCodeStarted
    /\ pc[c] = "idle"
    /\ pc' = [pc EXCEPT ![c] = "called"]
    /\ arg' = [arg EXCEPT ![c] = name]
    /\ UNCHANGED <<tuPos, mem, nConstructed, cmp, ret, seen, handedOut>>

\* The comparison kept in one flag that all callers share.
Compare_shared(c) ==
    /\ pc[c] = "called"
    /\ pc' = [pc EXCEPT ![c] = "compared"]
    /\ cmp' = [d \in Callers |-> get_sound_test(arg[c])]
    /\ UNCHANGED <<tuPos, mem, nConstructed, arg, ret, seen, handedOut>>

\* name == "ding_dong" is evaluated.
Compare(c) ==
    /\ pc[c] = "called"
    /\ pc' = [pc EXCEPT ![c] = "compared"]
    /\ cmp' = [cmp EXCEPT ![c] = get_sound_test(arg[c])]
    /\ UNCHANGED <<tuPos, mem, nConstructed, arg, ret, seen, handedOut>>

\* A return that also empties the vector it answers.
Return_clearing(c) ==
    /\ pc[c] = "compared"
    /\ pc' = [pc EXCEPT ![c] = "returned"]
    /\ ret' = [ret EXCEPT ![c] = get_sound_result(cmp[c])]
    /\ handedOut' = handedOut \cup ({get_sound_result(cmp[c])} \ {NULL})
    /\ mem' = [mem EXCEPT ![AddrOf_ding_dong_raw].bytes = <<>>]
    /\ UNCHANGED <<tuPos, nConstructed, arg, cmp, seen>>

\* get_sound returns &ding_dong_raw or nullptr.
Return(c) ==
    /\ pc[c] = "compared"
    /\ pc' = [pc EXCEPT ![c] = "returned"]
    /\ ret' = [ret EXCEPT ![c] = get_sound_result(cmp[c])]
    /\ handedOut' = handedOut \cup ({get_sound_result(cmp[c])} \ {NULL})
    /\ UNCHANGED <<tuPos, mem, nConstructed, arg, cmp, seen>>

\* ---------------------------------------------------------------- callers

\* What reading through pointer p can give. Reading an object whose
\* constructor has not run, or an address that holds no object, is
\* undefined: any of these.
UndefinedReads == {<<>>, <<0>>, <<255, 255, 255, 255>>}

Deref(p) ==
    IF p \notin DOMAIN mem THEN UndefinedReads
    ELSE IF ~mem[p].constructed THEN UndefinedReads
    ELSE {mem[p].bytes}

\* The caller tests the result and, when it is present, reads the bytes.
Observe(c) ==
    /\ pc[c] = "returned"
    /\ \E b \in (IF ret[c] = NULL THEN {<<>>} ELSE Deref(ret[c])) :
          seen' = [seen EXCEPT ![arg[c]] =
                     @ \cup {[present |-> ret[c] # NULL, bytes |-> b]}]
    /\ pc' = [pc EXCEPT ![c] = "idle"]
    /\ arg' = [arg EXCEPT ![c] = Name_empty]
    /\ cmp' = [cmp EXCEPT ![c] = FALSE]
    /\ ret' = [ret EXCEPT ![c] = NULL]
    /\ UNCHANGED <<tuPos, mem, nConstructed, handedOut>>

Next ==
    \/ DynamicInit
    \/ \E c \in Callers, name \in ProbeNames : Call(c, name)
    \/ \E c \in Callers : Compare(c)
    \/ \E c \in Callers : Return(c)
    \/ \E c \in Callers : Observe(c)

Spec == Init /\ [][Next]_vars

\* ----------------------------------------------------------------- claims

FourZeroBytes == <<0, 0, 0, 0>>

\* The outcome of get_sound(name) when nothing else runs: whether the result
\* is present and, if so, the bytes of the freshly constructed vector.
AloneOutcome(name) ==
    [present |-> get_sound(name) # NULL,
     bytes |-> IF get_sound(name) = NULL THEN <<>> ELSE ding_dong_raw_init]

\* C1: every call of get_sound whose name is exactly "ding_dong" returns a
\* non-null pointer, and the byte sequence it points to has length 4 and is
\* 0x00, 0x00, 0x00, 0x00.
C1_DingDongFound ==
    /\ \A c \in Callers :
          (pc[c] = "returned" /\ arg[c] = Name_ding_dong) =>
             /\ ret[c] # NULL
             /\ \A b \in Deref(ret[c]) : Len(b) = 4 /\ b = FourZeroBytes
    /\ \A o \in seen[Name_ding_dong] :
          o.present /\ Len(o.bytes) = 4 /\ o.bytes = FourZeroBytes

\* A call with "ding_dong" has returned and an earlier one has been read.
C1_Witness ==
    /\ \E c \in Callers : pc[c] = "returned" /\ arg[c] = Name_ding_dong
    /\ seen[Name_ding_dong] # {}

\* C2: for every name other than "ding_dong" (the empty string, the case
\* variants, the proper prefix, the extensions) get_sound returns nullptr.
C2_OtherNamesAbsent ==
    /\ \A c \in Callers :
          (pc[c] = "returned" /\ arg[c] # Name_ding_dong) => ret[c] = NULL
    /\ \A n \in ProbeNames \ {Name_ding_dong} :
          \A o \in seen[n] : ~o.present

\* Every name other than "ding_dong" has been looked up and its result read.
C2_Witness ==
    \A n \in ProbeNames \ {Name_ding_dong} : seen[n] # {}

\* The registry as the program holds it: one object, constructed once, with
\* its four zero bytes, found under the key "ding_dong" and no other.
RegistryIntact ==
    /\ DOMAIN mem = {AddrOf_ding_dong_raw}
    /\ mem[AddrOf_ding_dong_raw] =
          [constructed |-> TRUE, bytes |-> FourZeroBytes]
    /\ nConstructed = 1
    /\ {n \in ProbeNames : get_sound(n) # NULL} = {Name_ding_dong}

\* A step of caller c inside get_sound.
GetSoundStep(c) ==
    /\ pc[c] \in {"called", "compared"}
    /\ pc'[c] # pc[c]

\* C3: in every state after initialization, whatever get_sound calls have
\* been made, the key set is {"ding_dong"} and the stored asset is 0,0,0,0;
\* a step of get_sound changes neither the registry nor any state other
\* than the calling frame's own.
C3_RegistryUnchanged ==
    /\ [](nConstructed >= 1 => RegistryIntact)
    /\ [][\A c \in Callers : GetSoundStep(c) =>
             /\ mem' = mem
             /\ nConstructed' = nConstructed
             /\ tuPos' = tuPos
             /\ seen' = seen
             /\ \A d \in Callers \ {c} :
                   /\ pc'[d] = pc[d]
                   /\ arg'[d] = arg[d]
                   /\ cmp'[d] = cmp[d]
                   /\ ret'[d] = ret[d]]_vars

\* Found and not-found names have both been looked up, and a further call
\* has returned.
C3_Witness ==
    /\ nConstructed >= 1
    /\ seen[Name_ding_dong] # {}
    /\ seen[Name_empty] # {}
    /\ \E c \in Callers : pc[c] = "returned"

\* C4: with callers running get_sound concurrently on any mix of names,
\* under every interleaving the stored content is not altered and each
\* caller gets, at every step, what it would get running alone.
C4_ConcurrentSameAsAlone ==
    /\ \A c \in Callers :
          /\ pc[c] \in {"compared", "returned"} =>
                cmp[c] = get_sound_test(arg[c])
          /\ pc[c] = "returned" =>
                /\ ret[c] = get_sound(arg[c])
                /\ ret[c] # NULL =>
                      Deref(ret[c]) = {AloneOutcome(arg[c]).bytes}
    /\ \A n \in ProbeNames : seen[n] \subseteq {AloneOutcome(n)}
    /\ (\E c \in Callers : pc[c] # "idle") =>
          mem[AddrOf_ding_dong_raw].bytes = ding_dong_raw_init

\* Two callers are inside get_sound at once, one with the key and one with
\* another name, the first already past its comparison.
C4_Witness ==
    \E c, d \in Callers :
       /\ c # d
       /\ pc[c] = "compared" /\ arg[c] = Name_ding_dong
       /\ pc[d] = "returned" /\ arg[d] = Name_DING_DONG

\* C5: lookups are idempotent. All the outcomes observed for one name are
\* the same (present or absent, and the same bytes), a call that has
\* returned agrees with every outcome observed earlier for its name, and
\* two calls with the same name agree with each other.
C5_Idempotent ==
    /\ \A n \in ProbeNames : Cardinality(seen[n]) <= 1
    /\ \A c \in Callers :
          pc[c] = "returned" =>
             \A o \in seen[arg[c]] :
                /\ o.present = (ret[c] # NULL)
                /\ o.present => Deref(ret[c]) = {o.bytes}
    /\ \A c, d \in Callers :
          (pc[c] = "returned" /\ pc[d] = "returned" /\ arg[c] = arg[d]) =>
             ret[c] = ret[d]

\* "ding_dong" was looked up and read, other names were looked up and
\* read, and a later call with "ding_dong" has returned.
C5_Witness ==
    /\ seen[Name_ding_dong] # {}
    /\ seen[Name_ding] # {}
    /\ seen[Name_ding_dong2] # {}
    /\ \E c \in Callers : pc[c] = "returned" /\ arg[c] = Name_ding_dong

\* C6: get_sound is total and never fails. A caller can enter it with any
\* name, every call in progress can take its next step, and a call that has
\* returned holds either nullptr or the address of an object: never a
\* failure signal.
C6_TotalNeverFails ==
    \A c \in Callers :
       /\ pc[c] \in {"idle", "called", "compared", "returned"}
       /\ (UserCodeStarted /\ pc[c] = "idle") =>
             \A n \in ProbeNames : ENABLED Call(c, n)
       /\ pc[c] = "called" => ENABLED Compare(c)
       /\ pc[c] = "compared" => ENABLED Return(c)
       /\ pc[c] = "returned" =>
             /\ (ret[c] = NULL) # (ret[c] \in DOMAIN mem)
             /\ ENABLED Observe(c)

\* One call has returned not-found while a found outcome was read before.
C6_Witness ==
    /\ \E c \in Callers :
          pc[c] = "returned" /\ ret[c] = NULL /\ arg[c] = Name_ding_dong_nul
    /\ \E o \in seen[Name_ding_dong] : o.present

C8_SameObjectStaysValid ==
    /\ \A c \in Callers :
          (pc[c] = "returned" /\ ret[c] # NULL) =>
             ret[c] = AddrOf_ding_dong_raw
    /\ handedOut \subseteq {AddrOf_ding_dong_raw}
    /\ \A p \in handedOut :
          /\ p \in DOMAIN mem
          /\ mem[p].constructed
          /\ mem[p].bytes = FourZeroBytes

\* The address was handed out, its bytes were read, and later calls (one
\* found, one not) have returned since.
C8_Witness ==
    /\ handedOut # {}
    /\ seen[Name_ding_dong] # {}
    /\ \E c, d \in Callers :
          /\ pc[c] = "returned" /\ ret[c] = AddrOf_ding_dong_raw
          /\ pc[d] = "returned" /\ arg[d] = Name_ding

====
